---- MODULE Spec2Model ----
(***************************************************************************)
(* Backup lifecycle and retention engine of HomeServerBot                  *)
(* (main.py, workflows.py, helpers.py, loader.py).                         *)
(*                                                                         *)
(* Strings are sequences of one-character strings.  Timestamps are ticks   *)
(* (TicksPerDay of them in a day); NaT is the null timestamp.  A calendar  *)
(* date is a triple <<year, month, day>>.                                  *)
(***************************************************************************)
EXTENDS Integers, Sequences, FiniteSets, TLC

VARIABLES
    now,        \* wall clock, in ticks (helpers.get_current_datetime)
    pc,         \* position of the process in main()
    config,     \* validated configuration (loader.load_and_parse_args)
    csv,        \* instance_info.csv: the persisted table
    df,         \* the in-memory table of main(): [none, rows]; none when DETECT set it to None
    disk,       \* the backups directory: filename -> size in bytes
    docker,     \* the container runtime: id -> [present, name, started, finished]
    client,     \* docker_client of main(): TRUE when docker.from_env() succeeded
    totals,     \* total_prune_size / total_backup_size of main()
    messages,   \* WARNING / ERROR records captured by logLevelCountHandler
    sent,       \* texts delivered by bot.send_message in this run
    faults,     \* failures the environment has injected so far
    events,     \* changes the environment has made so far
    pre,        \* df and disk as they were when the last phase began
    pass,       \* what the last phase did (its locals when it returned)
    codec,      \* input and output of the naming codec (CodecSpec only)
    history     \* instance name and time of the last artifact written to the end

vars == <<now, pc, config, csv, df, disk, docker, client, totals, messages,
          sent, faults, events, pre, pass, codec, history>>

-----------------------------------------------------------------------------
(* Bounds of the model *)

TicksPerDay == 2
MaxTime == 4
MaxAdvance == 2
\* failures of the environment (a send, the runtime, a delete, an archive, a
\* stray file) in one behaviour
MaxFaults == 1
\* changes to the containers and to config.yaml in one behaviour
MaxEvents == 2

(* Program constants *)

\* float("inf"): no count and no number of days ever reaches it
Unbounded == 1000000
\* pd.NaT and np.nan: the null timestamp and the null size
NaT == 0 - 1
NaN == 0 - 2
\* what strptime leaves behind when it raises ValueError
ValueError == <<>>

-----------------------------------------------------------------------------
(* helpers.py: the naming codec *)

ForbiddenChars == {"\\", "/", ":", "*", "?", "\"", "<", ">", "|"}

ReSubForbidden(s) ==
    [i \in 1..Len(s) |-> IF s[i] \in ForbiddenChars THEN "%" ELSE s[i]]

\* a variant of the second replacement that leaves hyphens in place
ReplaceHyphen_kept(s) == s

ReplaceHyphen(s) ==
    [i \in 1..Len(s) |-> IF s[i] = "-" THEN "%" ELSE s[i]]

Formatted(s) == ReplaceHyphen(ReSubForbidden(s))

format_instance_name(container_id, container_name, path_backed) ==
    container_id \o <<"-">> \o Formatted(container_name) \o <<"-">>
        \o Formatted(path_backed)

Digits == <<"0", "1", "2", "3", "4", "5", "6", "7", "8", "9">>

IsDigit(c) == \E i \in 1..10 : Digits[i] = c

DigitVal(c) == (CHOOSE i \in 1..10 : Digits[i] = c) - 1

TwoDigits(n) == <<Digits[((n \div 10) % 10) + 1], Digits[(n % 10) + 1]>>

\* date.strftime("%y%m%d")
strftime(date) == TwoDigits(date[1] % 100) \o TwoDigits(date[2]) \o TwoDigits(date[3])

DaysInMonth(y, m) ==
    IF m = 2 THEN (IF y % 4 = 0 /\ (y % 100 # 0 \/ y % 400 = 0) THEN 29 ELSE 28)
    ELSE IF m \in {4, 6, 9, 11} THEN 30 ELSE 31

\* dt.datetime.strptime(s, "%y%m%d") on a six-digit field; any other field
\* raises ValueError (the shorter forms strptime also accepts never occur in
\* the directories of this model)
strptime(s) ==
    IF Len(s) # 6 \/ \E i \in 1..Len(s) : ~IsDigit(s[i]) THEN ValueError
    ELSE LET yy == 10 * DigitVal(s[1]) + DigitVal(s[2])
             mm == 10 * DigitVal(s[3]) + DigitVal(s[4])
             dd == 10 * DigitVal(s[5]) + DigitVal(s[6])
             y  == IF yy >= 69 THEN 1900 + yy ELSE 2000 + yy
         IN  IF mm \in 1..12 /\ dd >= 1 /\ dd <= DaysInMonth(y, mm)
             THEN <<y, mm, dd>> ELSE ValueError

construct_backup_name(instance_name, date) ==
    instance_name \o <<"-">> \o strftime(date)

\* a variant that takes everything from the first dot on for the extension
splitext_root_first_dot(s) ==
    LET dots == {i \in 1..Len(s) : s[i] = "."}
    IN  IF dots = {} THEN s
        ELSE SubSeq(s, 1, (CHOOSE i \in dots : \A j \in dots : i <= j) - 1)

\* os.path.splitext: the root ends before the last dot that follows a
\* character other than a dot
splitext_root(s) ==
    LET dots == {i \in 1..Len(s) :
                    s[i] = "." /\ \E j \in 1..(i - 1) : s[j] # "."}
    IN  IF dots = {} THEN s
        ELSE SubSeq(s, 1, (CHOOSE i \in dots : \A j \in dots : j <= i) - 1)

RECURSIVE split(_)
\* str.split("-")
split(s) ==
    LET hy == {i \in 1..Len(s) : s[i] = "-"}
    IN  IF hy = {} THEN <<s>>
        ELSE LET k == CHOOSE i \in hy : \A j \in hy : i <= j
             IN  <<SubSeq(s, 1, k - 1)>> \o split(SubSeq(s, k + 1, Len(s)))

parse_filename(filename_w_extension) ==
    LET fields == split(splitext_root(filename_w_extension))
    IN  IF Len(fields) # 4 THEN [ok |-> FALSE]
        ELSE IF strptime(fields[4]) = ValueError THEN [ok |-> FALSE]
        ELSE [ok |-> TRUE,
              container_id |-> fields[1],
              container_name |-> fields[2],
              path_backed_formatted |-> fields[3],
              instance_name |-> format_instance_name(fields[1], fields[2], fields[3]),
              date |-> strptime(fields[4])]

Extension == <<".", "g", "z">>

-----------------------------------------------------------------------------
(* The world of the model: containers, names, paths, sizes *)

Ids == {<<"a">>, <<"b">>}

\* docker_client.containers(all=True) lists the containers in this order
IdOrder == <<(<<"a">>), (<<"b">>)>>

Names == [a |-> {<<"w">>, <<"w", "-", "x">>}, b |-> {<<"v">>}]

\* the containers that are stopped and restarted in the model
Stoppable == {<<"a">>}

AllNames == Names.a \cup Names.b

NamesOf(id) == IF id = <<"a">> THEN Names.a ELSE Names.b

Root == <<"/">>
PathHyphen == <<"/", "d", "-", "e">>
PathSlash == <<"/", "d", "/", "e">>

\* container_paths of config.yaml: container id -> list of paths
NoPaths == [i \in {} |-> <<>>]
TwoPaths == [i \in {<<"a">>} |-> <<Root, PathSlash>>]
CollidingPaths == [i \in {<<"a">>} |-> <<PathHyphen, PathSlash>>]
RepeatedPath == [i \in {<<"a">>} |-> <<Root, Root>>]


HalfMiB == 524288
FiveMiB == 5242880
\* the bytes get_archive streams at a given time: the archived paths grow and
\* shrink from one invocation to the next
ArchiveSize(t) == IF t % 3 = 1 THEN FiveMiB ELSE HalfMiB
\* what a write that fails midway leaves on disk
PartialSize == 0

\* files that were never written by the scheduler
StrayFiles == {<<"n", "o", "t", "e", "s", ".", "t", "x", "t">>}

Config(interval, keep_days, keep_num, by_default, paths, bot) ==
    [min_backup_interval |-> interval,
     ghost_backup_keep_days |-> keep_days,
     backup_keep_num |-> keep_num,
     warn_large_backup_mb |-> 1,
     backup_by_default |-> by_default,
     container_paths |-> paths,
     bot |-> bot]

\* the config.yaml files of the model: the defaults of main.py (keep
\* everything, back up every container's root), and settings that make each
\* retention rule act within a few runs
Configs ==
    {Config(0, Unbounded, Unbounded, TRUE, NoPaths, FALSE),
     Config(0, 0, 1, TRUE, NoPaths, TRUE),
     Config(1, 0, 2, TRUE, NoPaths, FALSE),
     Config(2, 0, 2, TRUE, NoPaths, FALSE),
     Config(0, 0, 1, FALSE, TwoPaths, FALSE),
     Config(0, 0, 1, FALSE, CollidingPaths, FALSE),
     Config(0, 1, 2, TRUE, RepeatedPath, FALSE)}

-----------------------------------------------------------------------------
(* Small helpers on sequences and sets *)

\* a record captured by logLevelCountHandler: its level, its text and the
\* file or instance the text names
Warning(text, about) == [level |-> "WARNING", text |-> text, about |-> about]
Error(text, about) == [level |-> "ERROR", text |-> text, about |-> about]

Range(s) == {s[i] : i \in 1..Len(s)}

RECURSIVE SeqOfSet(_)
\* an enumeration of a finite set (the order os.listdir happens to return)
SeqOfSet(S) ==
    IF S = {} THEN <<>>
    ELSE LET x == CHOOSE y \in S : TRUE IN <<x>> \o SeqOfSet(S \ {x})

RECURSIVE InOrder(_)
\* a set of row labels in table order
InOrder(labels) ==
    IF labels = {} THEN <<>>
    ELSE LET l == CHOOSE x \in labels : \A y \in labels : x <= y
         IN  <<l>> \o InOrder(labels \ {l})

RECURSIVE Drop(_, _, _)
\* df.drop(labels)
Drop(rows, i, labels) ==
    IF i > Len(rows) THEN <<>>
    ELSE (IF i \in labels THEN <<>> ELSE <<rows[i]>>) \o Drop(rows, i + 1, labels)

\* (a - b).days
Days(a, b) == (a - b) \div TicksPerDay

\* the calendar date of a timestamp
DateOf(t) == <<2024, 1, 1 + (t \div TicksPerDay)>>

DateLess(d, e) ==
    \/ d[1] < e[1]
    \/ d[1] = e[1] /\ d[2] < e[2]
    \/ d[1] = e[1] /\ d[2] = e[2] /\ d[3] < e[3]

AllPaths == {Root, PathHyphen, PathSlash}

\* format_instance_name, computed once for every identity of the model
InstanceNames ==
    [key \in {<<id, name, path>> : id \in Ids, name \in AllNames, path \in AllPaths}
        |-> format_instance_name(key[1], key[2], key[3])]

InstanceName(row) ==
    InstanceNames[<<row.container_id, row.container_name, row.path_backed>>]

\* every filename the model can put into the backups directory
AllFiles ==
    StrayFiles \cup
    {construct_backup_name(InstanceNames[key], DateOf(t)) \o Extension :
        key \in DOMAIN InstanceNames, t \in 0..MaxTime}

\* parse_filename, computed once for every such filename
Parsed == [f \in AllFiles |-> parse_filename(f)]

-----------------------------------------------------------------------------
(* workflows.py: the liveness and deletion detector *)

\* a variant that never clears a deletion mark once it is set
update_dt_deleted_sticky(row, instances_to_backup, dt_current) ==
    IF row.dt_deleted # NaT THEN row.dt_deleted
    ELSE IF /\ row.container_id \in DOMAIN instances_to_backup
            /\ row.path_backed \in Range(instances_to_backup[row.container_id])
    THEN NaT
    ELSE dt_current

\* a variant that stamps an untracked row anew at every pass
update_dt_deleted_refreshed(row, instances_to_backup, dt_current) ==
    IF /\ row.container_id \in DOMAIN instances_to_backup
       /\ row.path_backed \in Range(instances_to_backup[row.container_id])
    THEN NaT
    ELSE dt_current

update_dt_deleted(row, instances_to_backup, dt_current) ==
    IF /\ row.container_id \in DOMAIN instances_to_backup
       /\ row.path_backed \in Range(instances_to_backup[row.container_id])
    THEN NaT
    ELSE IF row.dt_deleted = NaT THEN dt_current
    ELSE row.dt_deleted

\* a variant that forgets the liveness of a container that is no longer listed
update_dt_last_alive_forgetful(row, containers_dt_last_alive) ==
    IF row.container_id \in DOMAIN containers_dt_last_alive
    THEN containers_dt_last_alive[row.container_id]
    ELSE NaT

update_dt_last_alive(row, containers_dt_last_alive) ==
    IF row.container_id \in DOMAIN containers_dt_last_alive
    THEN containers_dt_last_alive[row.container_id]
    ELSE row.container_dt_last_alive

\* a variant that takes every listed container for alive now
get_container_dt_last_alive_now(container, dt_current) == dt_current

get_container_dt_last_alive(container, dt_current) ==
    IF container.started >= container.finished THEN dt_current
    ELSE container.finished

\* the should-track map built by the loop over container_list
InstancesToBackup(dk, container_paths, backup_by_default) ==
    LET listed == {id \in Ids : dk[id].present}
        tracked == {id \in listed :
                       \/ id \in DOMAIN container_paths /\ Len(container_paths[id]) > 0
                       \/ backup_by_default}
    IN  [id \in tracked |->
            IF id \in DOMAIN container_paths /\ Len(container_paths[id]) > 0
            THEN container_paths[id] ELSE <<Root>>]

NewRow(short_id, container_name, path) ==
    [container_id |-> short_id,
     container_name |-> container_name,
     path_backed |-> path,
     container_dt_last_alive |-> NaT,
     dt_last_backed |-> NaT,
     size_last_backed |-> NaN,
     dt_deleted |-> NaT]

RECURSIVE NewRowsOfPaths(_, _, _, _, _)
NewRowsOfPaths(short_id, container_name, paths, i, current_instance_names) ==
    IF i > Len(paths) THEN <<>>
    ELSE (IF InstanceNames[<<short_id, container_name, paths[i]>>]
                \notin current_instance_names
          THEN <<NewRow(short_id, container_name, paths[i])>> ELSE <<>>)
         \o NewRowsOfPaths(short_id, container_name, paths, i + 1,
                           current_instance_names)

RECURSIVE NewRows(_, _, _, _)
NewRows(dk, instances_to_backup, k, current_instance_names) ==
    IF k > Len(IdOrder) THEN <<>>
    ELSE (IF IdOrder[k] \in DOMAIN instances_to_backup
          THEN NewRowsOfPaths(IdOrder[k], dk[IdOrder[k]].name,
                              instances_to_backup[IdOrder[k]], 1,
                              current_instance_names)
          ELSE <<>>)
         \o NewRows(dk, instances_to_backup, k + 1, current_instance_names)

update_instances(rows, dk, container_paths, backup_by_default, dt_current) ==
    LET current_instance_names == {InstanceName(rows[i]) : i \in 1..Len(rows)}
        instances_to_backup ==
            InstancesToBackup(dk, container_paths, backup_by_default)
        appended == rows \o NewRows(dk, instances_to_backup, 1, current_instance_names)
        marked == [i \in 1..Len(appended) |->
                     [appended[i] EXCEPT !.dt_deleted =
                         update_dt_deleted(appended[i], instances_to_backup, dt_current)]]
        containers_dt_last_alive ==
            [id \in {id \in Ids : dk[id].present} |->
                get_container_dt_last_alive(dk[id], dt_current)]
    IN  [i \in 1..Len(marked) |->
            [marked[i] EXCEPT !.container_dt_last_alive =
                update_dt_last_alive(marked[i], containers_dt_last_alive)]]


-----------------------------------------------------------------------------
(* workflows.py: the retention policy engine and the backup scheduler *)

listdir(dsk) == SeqOfSet(DOMAIN dsk)

Remove(dsk, filename) == [f \in (DOMAIN dsk) \ {filename} |-> dsk[f]]

WriteFile(dsk, filename, size) ==
    [f \in (DOMAIN dsk) \cup {filename} |-> IF f = filename THEN size ELSE dsk[f]]

\* parsed_filename_list: (filename, parse_filename(filename)) for each file
ParsedList(backup_filenames) ==
    [i \in 1..Len(backup_filenames) |->
        [filename |-> backup_filenames[i],
         parsed |-> Parsed[backup_filenames[i]]]]

\* a file in the listing that parse_filename raises ValueError on
Malformed(dsk) == \E f \in DOMAIN dsk : ~Parsed[f].ok

\* the entries of a parsed listing that decode to instance_name, in listing order
Matching(parsed_filename_list, instance_name) ==
    SelectSeq(parsed_filename_list,
              LAMBDA e : e.parsed.instance_name = instance_name)

Filenames(entries) == [i \in 1..Len(entries) |-> entries[i].filename]

\* the artifacts of instance_name in a directory
ArtifactsOf(dsk, instance_name) ==
    {f \in DOMAIN dsk : Parsed[f].ok /\ Parsed[f].instance_name = instance_name}

\* the locals of a pass over the table and the directory: what it has selected,
\* what it has done so far, and whether an exception has left it
Locals(rows, dsk) ==
    [raised |-> FALSE, rows |-> rows, disk |-> dsk,
     instances_to_prune |-> {}, pruned_instance_label_list |-> {},
     df_instances_to_backup |-> {}, attempted |-> {},
     removed |-> {}, failed |-> {}, written |-> {}, created |-> {},
     partial |-> {}, updated |-> {}, warnings |-> {},
     instance_prune_count |-> 0, instance_prune_size |-> 0,
     total_prune_size |-> 0, total_backup_size |-> 0]

RECURSIVE RemoveFiles_blocking(_, _, _, _)
\* a variant in which a file that cannot be removed ends the pass
RemoveFiles_blocking(filenames, i, st, undeletable) ==
    IF i > Len(filenames) \/ st.raised THEN st
    ELSE IF filenames[i] \notin DOMAIN st.disk
    THEN [st EXCEPT !.raised = TRUE]
    ELSE IF filenames[i] \in undeletable
    THEN [st EXCEPT !.failed = @ \cup {filenames[i]}, !.raised = TRUE]
    ELSE RemoveFiles_blocking(filenames, i + 1,
             [st EXCEPT !.disk = Remove(@, filenames[i]),
                        !.removed = @ \cup {filenames[i]},
                        !.instance_prune_count = @ + 1,
                        !.instance_prune_size = @ + st.disk[filenames[i]],
                        !.total_prune_size = @ + st.disk[filenames[i]]],
             undeletable)

RECURSIVE RemoveFiles(_, _, _, _)
\* the inner loop of both pruning policies: os.path.getsize, which raises
\* FileNotFoundError outside the try, then os.remove inside it
RemoveFiles(filenames, i, st, undeletable) ==
    IF i > Len(filenames) \/ st.raised THEN st
    ELSE IF filenames[i] \notin DOMAIN st.disk
    THEN [st EXCEPT !.raised = TRUE]
    ELSE IF filenames[i] \in undeletable
    THEN RemoveFiles(filenames, i + 1,
             [st EXCEPT !.failed = @ \cup {filenames[i]},
                        !.warnings =
                            @ \cup {Warning("Cannot prune backup", filenames[i])}],
             undeletable)
    ELSE RemoveFiles(filenames, i + 1,
             [st EXCEPT !.disk = Remove(@, filenames[i]),
                        !.removed = @ \cup {filenames[i]},
                        !.instance_prune_count = @ + 1,
                        !.instance_prune_size = @ + st.disk[filenames[i]],
                        !.total_prune_size = @ + st.disk[filenames[i]]],
             undeletable)

ExpiredGhost(row, ghost_backup_keep_days, dt_current) ==
    /\ row.dt_deleted # NaT
    /\ Days(dt_current, row.dt_deleted) >= ghost_backup_keep_days

\* a variant that marks an instance as pruned whatever became of its files
MarkPruned_always(st, label, found) ==
    IF st.raised THEN st
    ELSE [st EXCEPT !.pruned_instance_label_list = @ \cup {label}]

\* "Only drop instance when all its corresponding backups are pruned"
MarkPruned(st, label, found) ==
    IF ~st.raised /\ st.instance_prune_count = found
    THEN [st EXCEPT !.pruned_instance_label_list = @ \cup {label}]
    ELSE st

\* a variant that takes an instance without files for pruned
PruneGhost_empty_pruned(st, label, instance_name_to_prune, filenames, undeletable) ==
    MarkPruned(RemoveFiles(filenames, 1,
                           [st EXCEPT !.instance_prune_count = 0,
                                      !.instance_prune_size = 0],
                           undeletable),
               label, Len(filenames))

\* one iteration of the loop over the ghost instances
PruneGhost(st, label, instance_name_to_prune, filenames, undeletable) ==
    IF Len(filenames) = 0
    THEN [st EXCEPT !.warnings =
             @ \cup {Warning("Cannot find backups", instance_name_to_prune)}]
    ELSE MarkPruned(RemoveFiles(filenames, 1,
                                [st EXCEPT !.instance_prune_count = 0,
                                           !.instance_prune_size = 0],
                                undeletable),
                    label, Len(filenames))

RECURSIVE GhostLoop(_, _, _, _, _)
GhostLoop(labels, k, parsed_filename_list, st, undeletable) ==
    IF k > Len(labels) \/ st.raised THEN st
    ELSE GhostLoop(labels, k + 1, parsed_filename_list,
             PruneGhost(st, labels[k], InstanceName(st.rows[labels[k]]),
                        Filenames(Matching(parsed_filename_list,
                                           InstanceName(st.rows[labels[k]]))),
                        undeletable),
             undeletable)

\* a variant that drops every selected instance
DropPruned_selected(st) ==
    IF st.raised THEN st
    ELSE [st EXCEPT !.rows = Drop(@, 1, st.instances_to_prune),
                    !.pruned_instance_label_list = st.instances_to_prune]

\* df.drop(pruned_instance_label_list), reached when nothing was raised
DropPruned(st) ==
    IF st.raised THEN st
    ELSE [st EXCEPT !.rows = Drop(@, 1, st.pruned_instance_label_list)]

\* prune_ghost_backups once instances_to_prune is known: the early return, the
\* parse of the whole listing, the loop and the drop
PruneGhosts(st, undeletable) ==
    IF st.instances_to_prune = {} THEN st
    ELSE IF Malformed(st.disk) THEN [st EXCEPT !.raised = TRUE]
    ELSE DropPruned(GhostLoop(InOrder(st.instances_to_prune), 1,
                              ParsedList(listdir(st.disk)), st, undeletable))

prune_ghost_backups(rows, dsk, ghost_backup_keep_days, dt_current, undeletable) ==
    PruneGhosts([Locals(rows, dsk) EXCEPT !.instances_to_prune =
                    {i \in 1..Len(rows) :
                        ExpiredGhost(rows[i], ghost_backup_keep_days, dt_current)}],
                undeletable)

\* a variant that applies the minimum interval to every row, backed up or not
IsDue_interval_first(row, min_backup_interval, dt_current) ==
    /\ row.dt_deleted = NaT
    /\ Days(dt_current, row.dt_last_backed) >= min_backup_interval
    /\ \/ row.dt_last_backed = NaT
       \/ /\ row.container_dt_last_alive # NaT
          /\ row.container_dt_last_alive > row.dt_last_backed

\* the selection predicate of the scheduler
\* a variant that takes a container alive at the time of its last backup for
\* changed since
IsDue_alive_at_backup(row, min_backup_interval, dt_current) ==
    /\ row.dt_deleted = NaT
    /\ \/ row.dt_last_backed = NaT
       \/ /\ row.container_dt_last_alive # NaT
          /\ row.container_dt_last_alive >= row.dt_last_backed
          /\ Days(dt_current, row.dt_last_backed) >= min_backup_interval

IsDue(row, min_backup_interval, dt_current) ==
    /\ row.dt_deleted = NaT
    /\ \/ row.dt_last_backed = NaT
       \/ /\ row.container_dt_last_alive # NaT
          /\ row.container_dt_last_alive > row.dt_last_backed
          /\ Days(dt_current, row.dt_last_backed) >= min_backup_interval

\* the position of the entry that backups.sort(key=lambda x: x[1]) puts first:
\* the earliest date, the earliest position among equal dates
Oldest(backups) ==
    CHOOSE i \in 1..Len(backups) :
        /\ \A j \in 1..Len(backups) :
              ~DateLess(backups[j].parsed.date, backups[i].parsed.date)
        /\ \A j \in 1..(i - 1) :
              DateLess(backups[i].parsed.date, backups[j].parsed.date)

\* a sequence without its k-th element
Without(s, k) == SubSeq(s, 1, k - 1) \o SubSeq(s, k + 1, Len(s))

RECURSIVE SortByDate(_)
\* backups.sort(key=lambda x: x[1]): stable, oldest first
SortByDate(backups) ==
    IF Len(backups) = 0 THEN <<>>
    ELSE <<backups[Oldest(backups)]>>
         \o SortByDate(Without(backups, Oldest(backups)))

\* a variant that prunes down to backup_keep_num, leaving no room for the new file
PruneExtra_one_short(st, backups, backup_keep_num, undeletable) ==
    IF Len(backups) >= backup_keep_num
    THEN RemoveFiles(SubSeq(Filenames(SortByDate(backups)), 1,
                            Len(backups) - backup_keep_num),
                     1, st, undeletable)
    ELSE st

\* a variant that prunes the newest backups and keeps the oldest
PruneExtra_newest_first(st, backups, backup_keep_num, undeletable) ==
    IF Len(backups) >= backup_keep_num
    THEN RemoveFiles(SubSeq(Filenames(SortByDate(backups)), backup_keep_num,
                            Len(backups)),
                     1, st, undeletable)
    ELSE st

\* count-based pruning of one due instance
PruneExtra(st, backups, backup_keep_num, undeletable) ==
    IF Len(backups) >= backup_keep_num
    THEN RemoveFiles(SubSeq(Filenames(SortByDate(backups)), 1,
                            Len(backups) - backup_keep_num + 1),
                     1, st, undeletable)
    ELSE st

\* the rows whose instance name is the one being backed up
LabelToUpdate(rows, instance_name) ==
    {i \in 1..Len(rows) : InstanceName(rows[i]) = instance_name}

\* the row update after the file is written and the assertion has passed
\* a variant that takes warn_large_backup_mb for a number of KiB
UpdateRow_kib(st, l, instance_name, filesize, dt_backed, warn_large_backup_mb) ==
    [st EXCEPT
        !.updated = @ \cup {l},
        !.rows[l].dt_last_backed = dt_backed,
        !.rows[l].size_last_backed = filesize,
        !.warnings =
            IF filesize - st.instance_prune_size > warn_large_backup_mb * 1024
            THEN @ \cup {Warning("Large backup", instance_name)}
            ELSE @]

UpdateRow(st, l, instance_name, filesize, dt_backed, warn_large_backup_mb) ==
    [st EXCEPT
        !.updated = @ \cup {l},
        !.rows[l].dt_last_backed = dt_backed,
        !.rows[l].size_last_backed = filesize,
        !.warnings =
            IF filesize - st.instance_prune_size
                  > warn_large_backup_mb * (1024 * 1024)
            THEN @ \cup {Warning("Large backup", instance_name)}
            ELSE @]

\* the file is on disk and counted; the assertion that one row carries the
\* instance name fails into the except clause
Written(st, path, instance_name, filesize, dt_backed, warn_large_backup_mb) ==
    IF Cardinality(LabelToUpdate(st.rows, instance_name)) # 1
    THEN [st EXCEPT !.warnings =
             @ \cup {Warning("Error during backup creation", path)}]
    ELSE UpdateRow(st, CHOOSE i \in LabelToUpdate(st.rows, instance_name) : TRUE,
                   instance_name, filesize, dt_backed, warn_large_backup_mb)

\* the try block that creates one backup and updates its row
CreateBackup(st, label, instance_name, path, dt_current, warn_large_backup_mb, outcome) ==
    IF st.raised THEN st
    ELSE IF outcome.result = "get_archive raises"
    THEN [st EXCEPT !.attempted = @ \cup {label},
                    !.warnings =
                        @ \cup {Warning("Error during backup creation", path)}]
    ELSE IF outcome.result = "write raises"
    THEN [st EXCEPT !.attempted = @ \cup {label},
                    !.disk = WriteFile(@, path, PartialSize),
                    !.partial = @ \cup {path},
                    !.warnings =
                        @ \cup {Warning("Error during backup creation", path)}]
    ELSE Written([st EXCEPT !.attempted = @ \cup {label},
                            !.written = @ \cup {label},
                            !.disk = WriteFile(@, path, outcome.size),
                            !.created = @ \cup {path},
                            !.total_backup_size = @ + outcome.size],
                 path, instance_name, outcome.size, dt_current,
                 warn_large_backup_mb)

\* one iteration of the loop over the due instances
BackupInstance(st, label, instance_name, parsed_filename_list, backup_keep_num, warn_large_backup_mb, dt_current, undeletable, outcome) ==
    CreateBackup(PruneExtra([st EXCEPT !.instance_prune_count = 0,
                                       !.instance_prune_size = 0],
                            Matching(parsed_filename_list, instance_name),
                            backup_keep_num, undeletable),
                 label, instance_name,
                 construct_backup_name(instance_name, DateOf(dt_current))
                     \o Extension,
                 dt_current, warn_large_backup_mb, outcome)

RECURSIVE BackupLoop(_, _, _, _, _, _, _, _, _)
BackupLoop(labels, k, parsed_filename_list, st, backup_keep_num, warn_large_backup_mb, dt_current, undeletable, outcomes) ==
    IF k > Len(labels) \/ st.raised THEN st
    ELSE BackupLoop(labels, k + 1, parsed_filename_list,
             BackupInstance(st, labels[k], InstanceName(st.rows[labels[k]]),
                            parsed_filename_list, backup_keep_num,
                            warn_large_backup_mb, dt_current, undeletable,
                            outcomes[labels[k]]),
             backup_keep_num, warn_large_backup_mb, dt_current, undeletable,
             outcomes)

\* prune_extra_and_create_backups: the parse of the whole listing comes before
\* the selection
prune_extra_and_create_backups(rows, dsk, min_backup_interval, backup_keep_num, warn_large_backup_mb, dt_current, undeletable, outcomes) ==
    IF Malformed(dsk) THEN [Locals(rows, dsk) EXCEPT !.raised = TRUE]
    ELSE BackupLoop(InOrder({i \in 1..Len(rows) :
                                IsDue(rows[i], min_backup_interval, dt_current)}),
                    1, ParsedList(listdir(dsk)),
                    [Locals(rows, dsk) EXCEPT !.df_instances_to_backup =
                        {i \in 1..Len(rows) :
                            IsDue(rows[i], min_backup_interval, dt_current)}],
                    backup_keep_num, warn_large_backup_mb, dt_current,
                    undeletable, outcomes)

-----------------------------------------------------------------------------
(* The environment between two runs *)

\* "0001-01-01T00:00:00Z", the FinishedAt of a container that never stopped.
\* Only the order of StartedAt and FinishedAt and the value of FinishedAt reach
\* the program, so a container that runs is kept as started = finished =
\* ZeroTime and one that has exited as started = ZeroTime < finished.
ZeroTime == 0 - 1

NoContainer == [present |-> FALSE, name |-> <<>>, started |-> ZeroTime,
                finished |-> ZeroTime]

\* a container that was started and has not exited
Running(name) == [present |-> TRUE, name |-> name, started |-> ZeroTime,
                  finished |-> ZeroTime]

\* the name the first container goes by when the program is first invoked
FirstName == <<"w">>

EmptyDir == [f \in {} |-> 0]

Idle == pc = "IDLE"

ContainerRun(id, name) ==
    /\ Idle
    /\ events < MaxEvents
    /\ events' = events + 1
    /\ ~docker[id].present
    /\ docker' = [docker EXCEPT ![id] =
                     [present |-> TRUE, name |-> name, started |-> ZeroTime,
                      finished |-> ZeroTime]]
    /\ UNCHANGED <<now, pc, config, csv, df, disk, client, totals, messages,
                   sent, faults, pre, pass, codec, history>>

ContainerStop(id) ==
    /\ Idle
    /\ events < MaxEvents
    /\ events' = events + 1
    /\ docker[id].present
    /\ docker[id].started >= docker[id].finished
    /\ docker' = [docker EXCEPT ![id].finished = now]
    /\ UNCHANGED <<now, pc, config, csv, df, disk, client, totals, messages,
                   sent, faults, pre, pass, codec, history>>

ContainerStart(id) ==
    /\ Idle
    /\ events < MaxEvents
    /\ events' = events + 1
    /\ docker[id].present
    /\ docker[id].started < docker[id].finished
    /\ docker' = [docker EXCEPT ![id].finished = ZeroTime]
    /\ UNCHANGED <<now, pc, config, csv, df, disk, client, totals, messages,
                   sent, faults, pre, pass, codec, history>>

ContainerRemove(id) ==
    /\ Idle
    /\ events < MaxEvents
    /\ events' = events + 1
    /\ docker[id].present
    /\ docker' = [docker EXCEPT ![id] = NoContainer]
    /\ UNCHANGED <<now, pc, config, csv, df, disk, client, totals, messages,
                   sent, faults, pre, pass, codec, history>>

ContainerRename(id, name) ==
    /\ Idle
    /\ events < MaxEvents
    /\ events' = events + 1
    /\ docker[id].present
    /\ docker[id].name # name
    /\ docker' = [docker EXCEPT ![id].name = name]
    /\ UNCHANGED <<now, pc, config, csv, df, disk, client, totals, messages,
                   sent, faults, pre, pass, codec, history>>

\* config.yaml is edited between two runs
EditConfig(c) ==
    /\ Idle
    /\ events < MaxEvents
    /\ events' = events + 1
    /\ c # config
    /\ config' = c
    /\ UNCHANGED <<now, pc, csv, df, disk, docker, client, totals, messages,
                   sent, faults, pre, pass, codec, history>>

\* somebody drops a file of their own into the backups directory
StrayFile(filename) ==
    /\ Idle
    /\ faults < MaxFaults
    /\ faults' = faults + 1
    /\ filename \notin DOMAIN disk
    /\ disk' = WriteFile(disk, filename, HalfMiB)
    /\ UNCHANGED <<now, pc, config, csv, df, docker, client, totals, messages,
                   sent, events, pre, pass, codec, history>>

-----------------------------------------------------------------------------
(* main.py: one run of the orchestrator *)

\* what a phase leaves behind of its pass for the properties to read
Pass(phase, ran, st) ==
    [phase |-> phase, ran |-> ran, raised |-> st.raised,
     instances_to_prune |-> st.instances_to_prune,
     pruned_instance_label_list |-> st.pruned_instance_label_list,
     df_instances_to_backup |-> st.df_instances_to_backup,
     attempted |-> st.attempted, removed |-> st.removed, failed |-> st.failed,
     written |-> st.written, created |-> st.created, partial |-> st.partial,
     updated |-> st.updated, total_prune_size |-> st.total_prune_size,
     total_backup_size |-> st.total_backup_size]

\* a phase whose pass was never entered
Skipped(phase, raised) ==
    Pass(phase, FALSE, [Locals(<<>>, EmptyDir) EXCEPT !.raised = raised])

\* __main__: load_and_parse_args reads instance_info.csv, a new process starts
\* with empty counters and an empty logLevelCountHandler
Load ==
    /\ Idle
    /\ pc' = "START"
    /\ df' = [none |-> FALSE, rows |-> csv]
    /\ client' = FALSE
    /\ totals' = [prune |-> 0, backup |-> 0]
    /\ messages' = {}
    /\ sent' = <<>>
    /\ pre' = [df |-> df', disk |-> disk]
    /\ pass' = Skipped("none", FALSE)
    /\ UNCHANGED <<now, config, csv, disk, docker, faults, events, codec, history>>

Injected(fault) == IF fault THEN 1 ELSE 0

\* the start message, then docker.from_env()
Start ==
    /\ pc = "START"
    /\ \E delivered \in BOOLEAN, reachable \in BOOLEAN :
          /\ faults' = faults + Injected(config.bot /\ ~delivered)
                              + Injected(~reachable /\ (delivered \/ ~config.bot))
          /\ faults' <= MaxFaults
          /\ IF config.bot /\ ~delivered
             THEN /\ pc' = "CRASHED"
                  /\ UNCHANGED <<client, messages, sent>>
             ELSE /\ pc' = "DETECT"
                  /\ sent' = IF config.bot THEN Append(sent, "start") ELSE sent
                  /\ client' = reachable
                  /\ messages' =
                        IF reachable THEN messages
                        ELSE messages \cup {Error("Cannot access docker service!", <<>>)}
    /\ UNCHANGED <<now, config, csv, df, disk, docker, totals, events, pre, pass,
                   codec, history>>

Detect ==
    /\ pc = "DETECT"
    /\ pc' = "GHOST_PRUNE"
    /\ pre' = [df |-> df, disk |-> disk]
    /\ IF ~client
       THEN /\ pass' = Skipped("DETECT", FALSE)
            /\ UNCHANGED <<df, messages, faults>>
       ELSE \E raises \in BOOLEAN :
               /\ faults' = faults + Injected(raises)
               /\ faults' <= MaxFaults
               /\ pass' = Pass("DETECT", TRUE,
                                [Locals(<<>>, EmptyDir) EXCEPT !.raised = raises])
               /\ IF raises
                  THEN /\ df' = [none |-> TRUE, rows |-> <<>>]
                       /\ messages' = messages \cup
                             {Error("Error while updating instances information!", <<>>)}
                  ELSE /\ df' = [none |-> FALSE,
                                 rows |-> update_instances(df.rows, docker,
                                              config.container_paths,
                                              config.backup_by_default, now)]
                       /\ UNCHANGED messages
    /\ UNCHANGED <<now, config, csv, disk, docker, client, totals, sent, events,
                   codec, history>>

\* the files os.remove cannot delete in a pass
Undeletables(dsk) ==
    {S \in SUBSET (DOMAIN dsk) : faults + Cardinality(S) <= MaxFaults}

\* main.py 73-81 around the result r of prune_ghost_backups: the files are gone
\* whatever happens, the table and the total are assigned only on return
GhostPruned(r) ==
    /\ pass' = Pass("GHOST_PRUNE", TRUE, r)
    /\ disk' = r.disk
    /\ IF r.raised
       THEN /\ messages' = messages \cup r.warnings
                   \cup {Warning("Error while pruning ghost backups!", <<>>)}
            /\ UNCHANGED <<df, totals>>
       ELSE /\ messages' = messages \cup r.warnings
            /\ df' = [none |-> FALSE, rows |-> r.rows]
            /\ totals' = [totals EXCEPT !.prune = @ + r.total_prune_size]

\* a variant in which ghost pruning needs the runtime as well
df_copy_raises_without_client == df.none \/ ~client

\* main.py 76, "df.copy()": AttributeError when DETECT has left df = None
df_copy_raises == df.none

GhostPrune ==
    /\ pc = "GHOST_PRUNE"
    /\ pc' = "SCHEDULE_BACKUP"
    /\ pre' = [df |-> df, disk |-> disk]
    /\ IF df_copy_raises
       THEN /\ pass' = Skipped("GHOST_PRUNE", TRUE)
            /\ messages' = messages \cup
                  {Warning("Error while pruning ghost backups!", <<>>)}
            /\ UNCHANGED <<df, disk, totals, faults>>
       ELSE \E undeletable \in Undeletables(disk) :
               /\ faults' = faults + Cardinality(undeletable)
               /\ GhostPruned(prune_ghost_backups(df.rows, disk,
                                  config.ghost_backup_keep_days, now, undeletable))
    /\ UNCHANGED <<now, config, csv, docker, client, sent, events, codec, history>>

Failures == {"get_archive raises", "write raises"}

\* what client.get_archive and the write of its stream do for each row
Outcome(labels, failing, how, size) ==
    [l \in labels |->
        IF l \in failing THEN [result |-> how, size |-> PartialSize]
        ELSE [result |-> "ok", size |-> size]]

DueLabels ==
    {i \in 1..Len(df.rows) : IsDue(df.rows[i], config.min_backup_interval, now)}

\* the artifacts written to the end in a pass replace what was remembered of
\* their instance names
Remember(hist, instance_names, dt_backed) ==
    {h \in hist : h[1] \notin instance_names}
        \cup {<<name, dt_backed>> : name \in instance_names}

\* main.py 86-100 around the result r of prune_extra_and_create_backups
Scheduled(r) ==
    /\ pass' = Pass("SCHEDULE_BACKUP", TRUE, r)
    /\ disk' = r.disk
    /\ history' = Remember(history,
                         {InstanceName(df.rows[l]) : l \in r.written}, now)
    /\ IF r.raised
       THEN /\ messages' = messages \cup r.warnings
                   \cup {Error("Error either while pruning extra or making backups!",
                               <<>>)}
            /\ UNCHANGED <<df, totals>>
       ELSE /\ messages' = messages \cup r.warnings
            /\ df' = [none |-> FALSE, rows |-> r.rows]
            /\ totals' = [prune |-> totals.prune + r.total_prune_size,
                          backup |-> r.total_backup_size]

\* a variant that takes the client for available whatever docker.from_env() did
docker_client_always == TRUE

\* main.py 84, "if docker_client:": None unless docker.from_env() returned
docker_client == client

Schedule ==
    /\ pc = "SCHEDULE_BACKUP"
    /\ pc' = "PERSIST"
    /\ pre' = [df |-> df, disk |-> disk, ghost_prune |-> pass,
               history |-> history]
    /\ IF ~docker_client
       THEN /\ pass' = Skipped("SCHEDULE_BACKUP", FALSE)
            /\ UNCHANGED <<df, disk, totals, messages, faults, history>>
       ELSE IF df.none
       THEN /\ pass' = Skipped("SCHEDULE_BACKUP", TRUE)
            /\ messages' = messages \cup
                  {Error("Error either while pruning extra or making backups!", <<>>)}
            /\ UNCHANGED <<df, disk, totals, faults, history>>
       ELSE \E undeletable \in Undeletables(disk) :
            \E failing \in SUBSET DueLabels, how \in Failures :
               /\ faults' = faults + Cardinality(undeletable) + Cardinality(failing)
               /\ faults' <= MaxFaults
               /\ failing = {} => how = "get_archive raises"
               /\ Scheduled(prune_extra_and_create_backups(df.rows, disk,
                      config.min_backup_interval, config.backup_keep_num,
                      config.warn_large_backup_mb, now, undeletable,
                      Outcome(1..Len(df.rows), failing, how, ArchiveSize(now))))
    /\ UNCHANGED <<now, config, csv, docker, client, sent, events, codec>>

\* df.to_csv(instance_info_path): AttributeError when df is None
Persist ==
    /\ pc = "PERSIST"
    /\ IF df.none
       THEN /\ pc' = "CRASHED"
            /\ UNCHANGED csv
       ELSE /\ pc' = "REPORT"
            /\ csv' = df.rows
    /\ UNCHANGED <<now, config, df, disk, docker, client, totals, messages, sent,
                   faults, events, pre, pass, codec, history>>

\* the alert messages are compiled and the completion message is sent
Report ==
    /\ pc = "REPORT"
    /\ \E delivered \in BOOLEAN :
          /\ faults' = faults + Injected(config.bot /\ ~delivered)
          /\ faults' <= MaxFaults
          /\ IF config.bot /\ ~delivered
             THEN /\ pc' = "CRASHED"
                  /\ UNCHANGED sent
             ELSE /\ pc' = "DONE"
                  /\ sent' = IF config.bot THEN Append(sent, "end") ELSE sent
    /\ UNCHANGED <<now, config, csv, df, disk, docker, client, totals, messages,
                   events, pre, pass, codec, history>>

\* the process is gone and the next invocation comes at a later time; what
\* happens to the containers in between is stamped with that time
Exit ==
    /\ pc \in {"DONE", "CRASHED"}
    /\ \E d \in 1..MaxAdvance :
          /\ now + d <= MaxTime
          /\ now' = now + d
    /\ pc' = "IDLE"
    /\ df' = [none |-> FALSE, rows |-> <<>>]
    /\ client' = FALSE
    /\ totals' = [prune |-> 0, backup |-> 0]
    /\ messages' = {}
    /\ sent' = <<>>
    /\ pre' = [df |-> df', disk |-> EmptyDir]
    /\ pass' = Skipped("none", FALSE)
    /\ UNCHANGED <<config, csv, disk, docker, faults, events, codec, history>>

-----------------------------------------------------------------------------

NoCodec == [stage |-> "off"]

Init ==
    /\ now = 0
    /\ pc = "IDLE"
    /\ config \in Configs
    /\ csv = <<>>
    /\ df = [none |-> FALSE, rows |-> <<>>]
    /\ disk = EmptyDir
    /\ docker = [id \in Ids |-> IF id \in Stoppable THEN Running(FirstName)
                                 ELSE NoContainer]
    /\ client = FALSE
    /\ totals = [prune |-> 0, backup |-> 0]
    /\ messages = {}
    /\ sent = <<>>
    /\ faults = 0
    /\ events = 0
    /\ pre = [df |-> df, disk |-> EmptyDir]
    /\ pass = Skipped("none", FALSE)
    /\ codec = NoCodec
    /\ history = {}

Environment ==
    \/ \E id \in Ids : \E name \in NamesOf(id) : ContainerRun(id, name)
    \/ \E id \in Stoppable : ContainerStop(id)
    \/ \E id \in Stoppable : ContainerStart(id)
    \/ \E id \in Ids : ContainerRemove(id)
    \/ \E id \in Ids : \E name \in NamesOf(id) : ContainerRename(id, name)
    \/ \E c \in Configs : EditConfig(c)
    \/ \E f \in StrayFiles : StrayFile(f)

Run ==
    \/ Load
    \/ Start
    \/ Detect
    \/ GhostPrune
    \/ Schedule
    \/ Persist
    \/ Report
    \/ Exit

Next == Environment \/ Run

Spec == Init /\ [][Next]_vars

-----------------------------------------------------------------------------
(* The naming codec on its own: an identity and a date are encoded into a
   filename, and the filename is decoded again *)

CodecIds == {<<"a">>, <<"a", "-", "1">>}

CodecNames ==
    {<<"w">>, <<"w", "-", "x">>, <<"w", ".", "x">>, <<"w", "?", "x">>,
     <<"w", "|", "x">>}

CodecPaths ==
    {Root, PathHyphen, PathSlash, <<"/", "d", ".", "e">>, <<"\\", "d", ":", "e">>}

CodecDates == {<<2024, 1, 1>>, <<2024, 2, 29>>, <<2068, 12, 31>>, <<2069, 1, 1>>}

CodecInputs ==
    [stage : {"input"},
     container_id : CodecIds,
     container_name : CodecNames,
     path_backed : CodecPaths,
     date : CodecDates,
     extension : BOOLEAN,
     instance_name : {<<>>},
     filename : {<<>>},
     parsed : {[ok |-> FALSE]}]

\* format_instance_name, construct_backup_name and, for a file the scheduler
\* writes, the ".gz" it appends
Encode ==
    /\ codec.stage = "input"
    /\ codec' =
          [codec EXCEPT
              !.stage = "encoded",
              !.instance_name =
                  format_instance_name(codec.container_id, codec.container_name,
                                       codec.path_backed),
              !.filename =
                  construct_backup_name(
                      format_instance_name(codec.container_id,
                                           codec.container_name,
                                           codec.path_backed),
                      codec.date)
                  \o (IF codec.extension THEN Extension ELSE <<>>)]
    /\ UNCHANGED <<now, pc, config, csv, df, disk, docker, client, totals,
                   messages, sent, faults, events, pre, pass, history>>

Decode ==
    /\ codec.stage = "encoded"
    /\ codec' = [codec EXCEPT !.stage = "decoded",
                              !.parsed = parse_filename(codec.filename)]
    /\ UNCHANGED <<now, pc, config, csv, df, disk, docker, client, totals,
                   messages, sent, faults, events, pre, pass, history>>

CodecInit ==
    /\ codec \in CodecInputs
    /\ now = 0
    /\ pc = "CODEC"
    /\ config = Config(0, Unbounded, Unbounded, TRUE, NoPaths, FALSE)
    /\ csv = <<>>
    /\ df = [none |-> FALSE, rows |-> <<>>]
    /\ disk = EmptyDir
    /\ docker = [id \in Ids |-> NoContainer]
    /\ client = FALSE
    /\ totals = [prune |-> 0, backup |-> 0]
    /\ messages = {}
    /\ sent = <<>>
    /\ faults = 0
    /\ events = 0
    /\ pre = [df |-> df, disk |-> EmptyDir]
    /\ pass = Skipped("none", FALSE)
    /\ history = {}

CodecNext == Encode \/ Decode

CodecSpec == CodecInit /\ [][CodecNext]_vars

-----------------------------------------------------------------------------
(* The vocabulary of the properties. pre holds the table and the directory
   as the last phase found them, pass what that phase did, df and disk what
   it left. *)

Min(a, b) == IF a <= b THEN a ELSE b

\* the pass of a phase has been entered and the run has gone no further
After(phase) == pass.phase = phase /\ pass.ran

LabelsBefore == 1..Len(pre.df.rows)

NameBefore(l) == InstanceName(pre.df.rows[l])

ArtifactsBefore(l) == ArtifactsOf(pre.disk, NameBefore(l))

ArtifactsAfter(l) == ArtifactsOf(disk, NameBefore(l))

\* the file the scheduler writes for a row in this run
ArtifactOfToday(l) ==
    construct_backup_name(NameBefore(l), DateOf(now)) \o Extension

\* the row was marked deleted at least ghost_backup_keep_days whole days ago
ExpiredGhostBefore(l) ==
    /\ pre.df.rows[l].dt_deleted # NaT
    /\ (now - pre.df.rows[l].dt_deleted) \div TicksPerDay
          >= config.ghost_backup_keep_days

\* the selection predicate as the specification words it
DueBefore(l) ==
    /\ pre.df.rows[l].dt_deleted = NaT
    /\ \/ pre.df.rows[l].dt_last_backed = NaT
       \/ /\ pre.df.rows[l].container_dt_last_alive > pre.df.rows[l].dt_last_backed
          /\ (now - pre.df.rows[l].dt_last_backed) \div TicksPerDay
                >= config.min_backup_interval

\* the rows the ghost-prune pass has taken out of the table
Gone == IF df.rows = pre.df.rows THEN {} ELSE pass.pruned_instance_label_list

\* who a row is, as opposed to what has been recorded about it
Identity(row) == <<row.container_id, row.container_name, row.path_backed>>

\* the should-track map of the detection pass of this run
ShouldTrack ==
    InstancesToBackup(docker, config.container_paths, config.backup_by_default)

Tracked(row) ==
    /\ row.container_id \in DOMAIN ShouldTrack
    /\ row.path_backed \in Range(ShouldTrack[row.container_id])

-----------------------------------------------------------------------------
(* C1 *)

-----------------------------------------------------------------------------
(* C2 *)

-----------------------------------------------------------------------------
(* C3 *)

\* C3: no phase but ghost pruning takes a row out of the table (detection and
\* scheduling keep every row, the table loaded is the table persisted, the
\* table persisted is the table in memory); ghost pruning takes out only rows
\* that are marked deleted, expired, and all of whose artifacts it deleted
\* without error; a row with an artifact that failed to delete stays, and so
\* does that artifact.
C3_RowRemoval ==
    /\ pc = "START" => df.rows = csv
    /\ pc \in {"REPORT", "DONE"} => csv = df.rows
    /\ (After("DETECT") /\ ~df.none) \/ After("SCHEDULE_BACKUP") =>
          /\ Len(df.rows) >= Len(pre.df.rows)
          /\ \A l \in LabelsBefore :
                Identity(df.rows[l]) = Identity(pre.df.rows[l])
    /\ After("GHOST_PRUNE") =>
          /\ df.rows = Drop(pre.df.rows, 1, Gone)
          /\ \A l \in Gone :
                /\ ExpiredGhostBefore(l)
                /\ ArtifactsBefore(l) \subseteq pass.removed
                /\ ArtifactsBefore(l) \cap pass.failed = {}
                /\ ArtifactsAfter(l) = {}
          /\ \A l \in LabelsBefore :
                ArtifactsBefore(l) \cap pass.failed # {} =>
                    /\ l \notin Gone
                    /\ ArtifactsBefore(l) \cap pass.failed \subseteq DOMAIN disk

\* a partial failure: of two artifacts of an expired ghost row one is deleted
\* and the other is not, and the row stays
C3_Witness ==
    /\ After("GHOST_PRUNE")
    /\ \E l \in LabelsBefore :
          /\ ExpiredGhostBefore(l)
          /\ ArtifactsBefore(l) \cap pass.failed # {}
          /\ ArtifactsBefore(l) \cap pass.removed # {}
          /\ l \notin Gone
          /\ Len(df.rows) = Len(pre.df.rows)

-----------------------------------------------------------------------------
(* C4 *)

\* C4: after a detection pass that returns, every row that was marked deleted
\* and whose (container_id, path_backed) is in the should-track map has
\* dt_deleted null.
C4_Resurrection ==
    (After("DETECT") /\ ~pass.raised) =>
        \A l \in LabelsBefore :
            (pre.df.rows[l].dt_deleted # NaT /\ Tracked(pre.df.rows[l]))
            => df.rows[l].dt_deleted = NaT

\* a ghost row comes back: its container is listed again
C4_Witness ==
    /\ After("DETECT")
    /\ ~pass.raised
    /\ \E l \in LabelsBefore :
          /\ pre.df.rows[l].dt_deleted # NaT
          /\ Tracked(pre.df.rows[l])
          /\ df.rows[l].dt_deleted = NaT

-----------------------------------------------------------------------------
(* C5 *)

\* C5, as stated: a row whose dt_last_backed is null is in the selection of
\* every scheduling pass that computes one.
C5_AsStated ==
    (After("SCHEDULE_BACKUP") /\ ~Malformed(pre.disk)) =>
        \A l \in LabelsBefore :
            pre.df.rows[l].dt_last_backed = NaT
            => l \in pass.df_instances_to_backup

\* C5: a row whose dt_last_backed is null and whose dt_deleted is null is in
\* the selection of every scheduling pass that computes one, whatever its
\* container_dt_last_alive and whatever min_backup_interval; a row marked
\* deleted is never in the selection.
C5_NeverBackedUp ==
    (After("SCHEDULE_BACKUP") /\ ~Malformed(pre.disk)) =>
        \A l \in LabelsBefore :
            /\ (pre.df.rows[l].dt_last_backed = NaT
                /\ pre.df.rows[l].dt_deleted = NaT)
               => l \in pass.df_instances_to_backup
            /\ pre.df.rows[l].dt_deleted # NaT
               => l \notin pass.df_instances_to_backup

\* a row that was never backed up is selected although a minimum interval of
\* a day is configured
C5_Witness ==
    /\ After("SCHEDULE_BACKUP")
    /\ config.min_backup_interval = 1
    /\ \E l \in LabelsBefore :
          /\ pre.df.rows[l].dt_last_backed = NaT
          /\ pre.df.rows[l].dt_deleted = NaT
          /\ l \in pass.df_instances_to_backup
          /\ l \in pass.attempted

-----------------------------------------------------------------------------
(* C6 *)

\* C6, as stated: in a scheduling pass a backup is attempted for a row if and
\* only if the row satisfies the selection predicate at the start of the
\* pass.
C6_AsStated ==
    After("SCHEDULE_BACKUP") =>
        \A l \in LabelsBefore : l \in pass.attempted <=> DueBefore(l)

-----------------------------------------------------------------------------
(* C7 *)

\* C7, as stated: decoding the filename of an encoded identity and date
\* gives back the container id, the container name, the path and the date.
C7_AsStated ==
    (codec.stage = "decoded" /\ codec.extension) =>
        /\ codec.parsed.ok
        /\ codec.parsed.container_id = codec.container_id
        /\ codec.parsed.container_name = codec.container_name
        /\ codec.parsed.path_backed_formatted = codec.path_backed
        /\ codec.parsed.date = codec.date

\* a character of s that the codec replaces by "%"
Replaced(s) == \E i \in 1..Len(s) : s[i] \in ForbiddenChars \cup {"-"}

\* C7: for a container id without a hyphen and a date from 1969 to 2068,
\* decoding the filename the scheduler writes (the backup name with its ".gz")
\* gives back the instance name it was built from and the date, with the id
\* and the sanitized name and path as its fields; the name and the path
\* themselves come back only when they hold no forbidden character and no
\* hyphen.
C7_RoundTrip ==
    (/\ codec.stage = "decoded"
     /\ codec.extension
     /\ ~Replaced(codec.container_id)
     /\ codec.date[1] \in 1969..2068) =>
        /\ codec.parsed.ok
        /\ codec.parsed.instance_name = codec.instance_name
        /\ codec.parsed.date = codec.date
        /\ codec.parsed.container_id = codec.container_id
        /\ codec.parsed.container_name = codec.container_name
              <=> ~Replaced(codec.container_name)
        /\ codec.parsed.path_backed_formatted = codec.path_backed
              <=> ~Replaced(codec.path_backed)

\* a name with a hyphen and a path with a slash have made the round trip
C7_Witness ==
    /\ codec.stage = "decoded"
    /\ codec.extension
    /\ codec.container_name = <<"w", "-", "x">>
    /\ codec.path_backed = PathSlash
    /\ codec.parsed.ok
    /\ codec.parsed.instance_name = codec.instance_name
    /\ codec.parsed.path_backed_formatted # codec.path_backed

-----------------------------------------------------------------------------
(* C8 *)

\* C8, as stated: with a file in the directory whose name does not decode,
\* ghost pruning still deletes the artifacts of every expired ghost row and
\* the scheduling pass still attempts every due row.
C8_AsStated ==
    Malformed(pre.disk) =>
        /\ After("GHOST_PRUNE") =>
              \A l \in LabelsBefore :
                  ExpiredGhostBefore(l) => ArtifactsAfter(l) \subseteq pass.failed
        /\ After("SCHEDULE_BACKUP") =>
              \A l \in LabelsBefore : DueBefore(l) => l \in pass.attempted

-----------------------------------------------------------------------------
(* C9 *)

\* the rows for which get_archive or the write of its stream raised
FailedToCreate == pass.attempted \ pass.written

\* C9, as stated: when the creation of a backup fails for a due row, the
\* row's dt_last_backed and size_last_backed stay as they were and every
\* other due row is still attempted in the same pass.
C9_AsStated ==
    (After("SCHEDULE_BACKUP") /\ FailedToCreate # {}) =>
        /\ \A l \in FailedToCreate :
              /\ l \notin pass.updated
              /\ pass.raised \/
                   /\ df.rows[l].dt_last_backed = pre.df.rows[l].dt_last_backed
                   /\ df.rows[l].size_last_backed = pre.df.rows[l].size_last_backed
        /\ \A l \in LabelsBefore : DueBefore(l) => l \in pass.attempted

-----------------------------------------------------------------------------
(* C10 *)

\* C10, as stated: a run that has entered its phases goes on to REPORT
\* whatever they did; it does not end before.
C10_AsStated ==
    [][(pc \in {"DETECT", "GHOST_PRUNE", "SCHEDULE_BACKUP", "PERSIST"})
          => (pc' # "CRASHED")]_vars

-----------------------------------------------------------------------------
(* C11 *)

\* the rows the run was loaded with; the file is rewritten only by PERSIST
LoadedLabels == 1..Len(csv)

\* update_instances has raised in this run and the table in memory is None
DetectFailed == df.none

\* C11, as stated: in a run where update_instances raises, once the
\* ghost-prune step is over no artifact is left of a tracked row that was
\* marked deleted at least ghost_backup_keep_days whole days ago.
C11_AsStated ==
    (pc = "SCHEDULE_BACKUP" /\ pass.phase = "GHOST_PRUNE" /\ DetectFailed) =>
        \A l \in LoadedLabels :
            ExpiredGhost(csv[l], config.ghost_backup_keep_days, now)
            => ArtifactsOf(disk, InstanceName(csv[l])) = {}

-----------------------------------------------------------------------------
(* C12 *)

\* the run is over: it has come to its end or an exception has ended it
RunOver == pc \in {"DONE", "CRASHED"}

\* C12, as stated: a run in which DETECT failed leaves the persisted table as
\* it was loaded and is not ended by a write of the null table; every other
\* run, once over, has been through SCHEDULE_BACKUP and has written the table
\* it then held.
C12_AsStated ==
    /\ (pc = "CRASHED") => ~DetectFailed
    /\ (RunOver /\ ~DetectFailed) =>
          /\ pass.phase = "SCHEDULE_BACKUP"
          /\ csv = df.rows

-----------------------------------------------------------------------------
(* C13 *)

\* the scheduling step of the run is over
ScheduleOver == pc = "PERSIST" /\ pass.phase = "SCHEDULE_BACKUP"

\* C13: in a run where the runtime is unreachable or DETECT failed, the
\* scheduling step leaves the backup directory and the table as it found
\* them: no backup is attempted, no file is written or removed, no row is
\* updated.
C13_NoEffect ==
    (ScheduleOver /\ (~client \/ DetectFailed)) =>
        /\ disk = pre.disk
        /\ df = pre.df
        /\ pass.attempted = {}
        /\ pass.written = {}
        /\ pass.created = {}
        /\ pass.partial = {}
        /\ pass.removed = {}
        /\ pass.updated = {}

\* the runtime is unreachable in a run whose table holds a row that is due
C13_Witness ==
    /\ ScheduleOver
    /\ ~client
    /\ ~DetectFailed
    /\ \E l \in 1..Len(df.rows) :
          IsDue(df.rows[l], config.min_backup_interval, now)
    /\ disk = pre.disk
    /\ df = pre.df

-----------------------------------------------------------------------------
(* C14 *)

\* the table a pass leaves in main(): its result, or the table it was given
\* when an exception left it
RowsAfter(r, rows) == IF r.raised THEN rows ELSE r.rows

\* every os.remove and every backup creation succeeds
AllSucceed(rows) ==
    Outcome(1..Len(rows), {}, "get_archive raises", ArchiveSize(now))

\* ghost pruning applied once more to what the run has left
GhostPruneAgain ==
    prune_ghost_backups(df.rows, disk, config.ghost_backup_keep_days, now, {})

\* the scheduling pass applied once more after that
ScheduleAgain(g) ==
    prune_extra_and_create_backups(RowsAfter(g, df.rows), g.disk,
        config.min_backup_interval, config.backup_keep_num,
        config.warn_large_backup_mb, now, {}, AllSucceed(RowsAfter(g, df.rows)))

\* a pass that has touched neither the table nor the directory
NoOp(r) ==
    /\ r.disk = disk
    /\ RowsAfter(r, df.rows) = df.rows
    /\ r.removed = {}
    /\ r.attempted = {}
    /\ r.written = {}
    /\ r.updated = {}
    /\ r.pruned_instance_label_list = {}

\* no deletion the pass tried has failed: os.remove has not raised, and
\* os.path.getsize has not raised on a file that was no longer there (a pass
\* that an undecodable filename stopped has tried none)
DeletesSucceeded(p) ==
    /\ p.ran
    /\ p.failed = {}
    /\ p.raised => Malformed(disk)

\* both passes of the run have run, every deletion they tried succeeded and
\* every backup they tried was created and recorded
FirstPassSucceeded ==
    /\ ScheduleOver
    /\ DeletesSucceeded(pre.ghost_prune)
    /\ DeletesSucceeded(pass)
    /\ pass.attempted = pass.updated

\* C14: after a ghost-prune pass and a scheduling pass in which every deletion
\* and every backup succeeded, a second ghost-prune pass and a second
\* scheduling pass at the same clock reading, with no detection pass in
\* between, create no artifact, delete none, and change or remove no row.
C14_Idempotent ==
    FirstPassSucceeded =>
        /\ NoOp(GhostPruneAgain)
        /\ NoOp(ScheduleAgain(GhostPruneAgain))

\* the first pass has pruned a ghost and backed an instance up
C14_Witness ==
    /\ FirstPassSucceeded
    /\ pre.ghost_prune.pruned_instance_label_list # {}
    /\ pre.ghost_prune.removed # {}
    /\ pass.updated # {}
    /\ pass.created # {}
    /\ NoOp(ScheduleAgain(GhostPruneAgain))

-----------------------------------------------------------------------------
(* C15 *)

\* C15, as stated: whether or not the start message or the end message is
\* delivered, the step that sends it does not end the run: after the start
\* message the run goes on to DETECT, after the end message it is done.
C15_AsStated ==
    [][/\ (pc = "START") => (pc' = "DETECT")
       /\ (pc = "REPORT") => (pc' = "DONE")]_vars

-----------------------------------------------------------------------------
(* C16 *)

\* the container of a row is listed and has not exited
ContainerRunning(row) ==
    /\ docker[row.container_id].present
    /\ docker[row.container_id].started >= docker[row.container_id].finished

\* C16, as stated: with min_backup_interval = 0, in a run where the runtime
\* is reachable and detection has succeeded, a backup is attempted for every
\* row that is not marked deleted and whose container is running.
C16_AsStated ==
    (After("SCHEDULE_BACKUP") /\ config.min_backup_interval = 0) =>
        \A l \in LabelsBefore :
            (pre.df.rows[l].dt_deleted = NaT /\ ContainerRunning(pre.df.rows[l]))
            => l \in pass.attempted

-----------------------------------------------------------------------------
(* C17 *)

\* the row is tracked, not marked deleted, and has been backed up before
BackedUpActive(row) == row.dt_deleted = NaT /\ row.dt_last_backed # NaT

\* the container of a row is listed and exited at or before the row's last
\* backup, and has not been started since
ExitedBeforeBackup(row) ==
    /\ docker[row.container_id].present
    /\ docker[row.container_id].started < docker[row.container_id].finished
    /\ docker[row.container_id].finished <= row.dt_last_backed

\* C17, as stated: as long as no container has been started, stopped, removed
\* or renamed since the first run (so every container has been running all
\* along), a row that has been backed up is not selected again.
C17_AsStated ==
    (After("SCHEDULE_BACKUP") /\ events = 0) =>
        \A l \in LabelsBefore :
            (BackedUpActive(pre.df.rows[l]) /\ ContainerRunning(pre.df.rows[l]))
            => l \notin pass.df_instances_to_backup

\* C17: a backed-up active row whose container exited at or before the last
\* backup and has not been started since is not selected; a backed-up active
\* row whose container is running is selected by every scheduling pass that
\* computes its selection once min_backup_interval whole days have passed
\* since the last backup.
C17_Liveness ==
    After("SCHEDULE_BACKUP") =>
        \A l \in LabelsBefore :
            BackedUpActive(pre.df.rows[l]) =>
                /\ ExitedBeforeBackup(pre.df.rows[l])
                   => l \notin pass.df_instances_to_backup
                /\ (/\ ContainerRunning(pre.df.rows[l])
                    /\ pre.df.rows[l].dt_last_backed < now
                    /\ Days(now, pre.df.rows[l].dt_last_backed)
                          >= config.min_backup_interval
                    /\ ~Malformed(pre.disk))
                   => l \in pass.df_instances_to_backup

\* a container that stopped was backed up once more and is now left alone
C17_Witness ==
    /\ After("SCHEDULE_BACKUP")
    /\ ~pass.raised
    /\ config.min_backup_interval = 0
    /\ \E l \in LabelsBefore :
          /\ BackedUpActive(pre.df.rows[l])
          /\ ExitedBeforeBackup(pre.df.rows[l])
          /\ pre.df.rows[l].dt_last_backed < now
          /\ l \notin pass.df_instances_to_backup
          /\ l \notin pass.attempted

-----------------------------------------------------------------------------
(* C18 *)

RECURSIVE SumSizes(_, _)
\* the bytes of the files S of a directory
SumSizes(dsk, S) ==
    IF S = {} THEN 0
    ELSE dsk[CHOOSE f \in S : TRUE]
            + SumSizes(dsk, S \ {CHOOSE f \in S : TRUE})

\* the bytes the scheduling pass has pruned of a row's artifacts
PrunedBytes(l) == SumSizes(pre.disk, ArtifactsBefore(l) \cap pass.removed)

\* the large-backup warning of a row has been logged in this run
LargeBackupWarned(l) == Warning("Large backup", NameBefore(l)) \in messages

\* C18: for every row whose backup the scheduling pass has created and
\* recorded, the large-backup warning is logged if and only if the bytes of
\* the new artifact less the bytes pruned for the row exceed
\* warn_large_backup_mb MiB; with 1 MiB and nothing pruned, 5 MiB warns and
\* 0.5 MiB does not; warned or not, the row carries the new dt_last_backed and
\* size_last_backed when the pass returns.
C18_LargeBackupWarning ==
    After("SCHEDULE_BACKUP") =>
        \A l \in pass.updated :
            /\ ArtifactOfToday(l) \in DOMAIN disk
            /\ LargeBackupWarned(l)
                  <=> disk[ArtifactOfToday(l)] - PrunedBytes(l)
                         > config.warn_large_backup_mb * 1024 * 1024
            /\ (config.warn_large_backup_mb = 1 /\ PrunedBytes(l) = 0) =>
                  /\ disk[ArtifactOfToday(l)] = FiveMiB => LargeBackupWarned(l)
                  /\ disk[ArtifactOfToday(l)] = HalfMiB => ~LargeBackupWarned(l)
            /\ ~pass.raised =>
                  /\ df.rows[l].dt_last_backed = now
                  /\ df.rows[l].size_last_backed = disk[ArtifactOfToday(l)]

\* a 5 MiB artifact has been created with nothing pruned: the warning is
\* logged and the row is updated
C18_Witness ==
    /\ After("SCHEDULE_BACKUP")
    /\ ~pass.raised
    /\ config.warn_large_backup_mb = 1
    /\ \E l \in pass.updated :
          /\ PrunedBytes(l) = 0
          /\ disk[ArtifactOfToday(l)] = FiveMiB
          /\ LargeBackupWarned(l)
          /\ df.rows[l].dt_last_backed = now
          /\ df.rows[l].size_last_backed = FiveMiB

-----------------------------------------------------------------------------
(* C19 *)

\* C19: after a detection pass that returns, a row that is not in the
\* should-track map keeps the dt_deleted it had if it had one, and is stamped
\* with the time of the pass if it had none.
C19_DeletedOnce ==
    (After("DETECT") /\ ~pass.raised) =>
        \A l \in LabelsBefore :
            ~Tracked(pre.df.rows[l]) =>
                /\ pre.df.rows[l].dt_deleted # NaT
                   => df.rows[l].dt_deleted = pre.df.rows[l].dt_deleted
                /\ pre.df.rows[l].dt_deleted = NaT
                   => df.rows[l].dt_deleted = now

\* a row marked deleted in an earlier run is still untracked and keeps its
\* earlier stamp
C19_Witness ==
    /\ After("DETECT")
    /\ ~pass.raised
    /\ \E l \in LabelsBefore :
          /\ ~Tracked(pre.df.rows[l])
          /\ pre.df.rows[l].dt_deleted # NaT
          /\ pre.df.rows[l].dt_deleted < now
          /\ df.rows[l].dt_deleted = pre.df.rows[l].dt_deleted

-----------------------------------------------------------------------------
(* C20 *)

\* the container of a row is in the listing of the runtime
Listed(row) == docker[row.container_id].present

\* C20: after a detection pass that returns, every row whose container is
\* listed carries that container's liveness timestamp (now if it has not
\* exited, else its finish time), tracked or not, and every row whose
\* container is not listed carries the container_dt_last_alive it had; and a
\* detection pass in a behaviour without any injected failure returns, also
\* when the container of a row has vanished from the listing.
C20_LastAlive ==
    After("DETECT") =>
        /\ faults = 0 => ~pass.raised
        /\ ~pass.raised =>
              \A l \in LabelsBefore :
                  /\ Listed(pre.df.rows[l]) =>
                        df.rows[l].container_dt_last_alive
                           = get_container_dt_last_alive(
                                docker[pre.df.rows[l].container_id], now)
                  /\ ~Listed(pre.df.rows[l]) =>
                        df.rows[l].container_dt_last_alive
                           = pre.df.rows[l].container_dt_last_alive

\* the container of a row has vanished and the pass has returned, the row
\* keeping the liveness it had
C20_Witness ==
    /\ After("DETECT")
    /\ ~pass.raised
    /\ \E l \in LabelsBefore :
          /\ ~Listed(pre.df.rows[l])
          /\ pre.df.rows[l].container_dt_last_alive # NaT
          /\ pre.df.rows[l].container_dt_last_alive < now
          /\ df.rows[l].container_dt_last_alive
                = pre.df.rows[l].container_dt_last_alive

-----------------------------------------------------------------------------
(* C21 *)

\* the artifacts of a row that the pass has tried to delete, with or without
\* success
TriedToDelete(l) == ArtifactsBefore(l) \cap (pass.removed \cup pass.failed)

\* C21: for every row whose turn has come in a scheduling pass, with count
\* artifacts of its instance name before the pass: if count >= backup_keep_num
\* the pass has tried to delete exactly count - backup_keep_num + 1 of them,
\* otherwise none; and no artifact it has tried to delete is dated later than
\* one of the same instance that it has not.
C21_OldestFirst ==
    After("SCHEDULE_BACKUP") =>
        \A l \in pass.attempted :
            /\ Cardinality(ArtifactsBefore(l)) >= config.backup_keep_num
               => Cardinality(TriedToDelete(l))
                     = Cardinality(ArtifactsBefore(l)) - config.backup_keep_num + 1
            /\ Cardinality(ArtifactsBefore(l)) < config.backup_keep_num
               => TriedToDelete(l) = {}
            /\ \A f \in TriedToDelete(l) :
               \A g \in ArtifactsBefore(l) \ TriedToDelete(l) :
                   DateLess(Parsed[f].date, Parsed[g].date)

\* of two artifacts of different days the older has gone and the newer stays
C21_Witness ==
    /\ After("SCHEDULE_BACKUP")
    /\ config.backup_keep_num = 2
    /\ \E l \in pass.attempted :
       \E f \in ArtifactsBefore(l) \cap pass.removed :
       \E g \in ArtifactsBefore(l) \ TriedToDelete(l) :
          /\ DateLess(Parsed[f].date, Parsed[g].date)
          /\ f \notin DOMAIN disk
          /\ g \in DOMAIN disk

-----------------------------------------------------------------------------
(* C22 *)

\* count-based pruning could not delete an artifact of the row
DeleteFailed(l) == ArtifactsBefore(l) \cap pass.failed # {}

\* no other row of the table has the instance name of the row
UniqueName(l) == \A j \in LabelsBefore : NameBefore(j) = NameBefore(l) => j = l

-----------------------------------------------------------------------------
(* C23 *)

\* the warning of ghost pruning about a row without artifacts is in the log
CannotFindWarned(l) ==
    Warning("Cannot find backups", NameBefore(l)) \in messages

\* C23: after every ghost-prune pass, a row that was selected (marked deleted
\* at least ghost_backup_keep_days whole days ago) and had no artifact of its
\* instance name on disk is still in the table, as it was, and when the pass
\* has returned the warning about it is in the log; this is so in the pass
\* that first selects the row and in every later one.
C23_GhostWithoutArtifacts ==
    After("GHOST_PRUNE") =>
        \A l \in LabelsBefore :
            (ExpiredGhostBefore(l) /\ ArtifactsBefore(l) = {}) =>
                /\ l \notin Gone
                /\ l \notin pass.pruned_instance_label_list
                /\ \E k \in 1..Len(df.rows) : df.rows[k] = pre.df.rows[l]
                /\ ~pass.raised => CannotFindWarned(l)

\* a ghost row marked in an earlier run has no artifact and is passed over
\* once more
C23_Witness ==
    /\ After("GHOST_PRUNE")
    /\ ~pass.raised
    /\ \E l \in LabelsBefore :
          /\ ExpiredGhostBefore(l)
          /\ pre.df.rows[l].dt_deleted < now
          /\ ArtifactsBefore(l) = {}
          /\ l \notin Gone
          /\ CannotFindWarned(l)
          /\ pre.df.rows[l] \in Range(df.rows)

-----------------------------------------------------------------------------
(* C24 *)

-----------------------------------------------------------------------------
(* C25 *)

\* the run is past its start and docker.from_env() has failed in it
Unreachable ==
    /\ pc \in {"DETECT", "GHOST_PRUNE", "SCHEDULE_BACKUP", "PERSIST", "REPORT",
               "DONE"}
    /\ ~client

\* C25: in a run where the runtime client cannot be obtained, the table that
\* reaches GHOST_PRUNE is the table as loaded, ghost pruning runs on it, the
\* scheduling step leaves its result alone, and that result is the table
\* persisted at the end of the run.
C25_Unreachable ==
    Unreachable =>
        /\ ~df.none
        /\ pc \in {"DETECT", "GHOST_PRUNE"} => df.rows = csv
        /\ pc = "GHOST_PRUNE" => pass.phase = "DETECT" /\ ~pass.ran
        /\ pc = "SCHEDULE_BACKUP" =>
              /\ pass.phase = "GHOST_PRUNE" /\ pass.ran
              /\ pre.df.rows = csv
              /\ ~pass.raised => df.rows = Drop(csv, 1, pass.pruned_instance_label_list)
        /\ pc = "PERSIST" =>
              /\ pre.ghost_prune.phase = "GHOST_PRUNE" /\ pre.ghost_prune.ran
              /\ ~pass.ran
              /\ df = pre.df
              /\ ~pre.ghost_prune.raised =>
                    df.rows = Drop(csv, 1, pre.ghost_prune.pruned_instance_label_list)
        /\ pc \in {"REPORT", "DONE"} => csv = df.rows

\* with the runtime unreachable a ghost has been pruned and the table without
\* its row has been written
C25_Witness ==
    /\ Unreachable
    /\ pc = "REPORT"
    /\ pre.ghost_prune.ran
    /\ pre.ghost_prune.pruned_instance_label_list # {}
    /\ pre.ghost_prune.removed # {}
    /\ csv = df.rows

-----------------------------------------------------------------------------
(* C26 *)

\* a string without a hyphen
NoHyphen(s) == \A i \in 1..Len(s) : s[i] # "-"

\* the filename of the codec is one the scheduler writes: the id is a short
\* container id of the runtime (hexadecimal, so without a hyphen) and the
\* name ends in ".gz"
WrittenByScheduler ==
    /\ codec.stage \in {"encoded", "decoded"}
    /\ codec.extension
    /\ NoHyphen(codec.container_id)

\* C26: a filename the scheduler writes splits, once its extension is
\* stripped, into exactly four fields at its hyphens, the sanitized container
\* name and the sanitized path holding no hyphen; sanitizing is idempotent,
\* and the filename decodes to a result whose first three fields encode to the
\* instance name the file was written under.
C26_FourFields ==
    WrittenByScheduler =>
        /\ NoHyphen(Formatted(codec.container_name))
        /\ NoHyphen(Formatted(codec.path_backed))
        /\ Formatted(Formatted(codec.container_name)) = Formatted(codec.container_name)
        /\ Formatted(Formatted(codec.path_backed)) = Formatted(codec.path_backed)
        /\ Len(split(splitext_root(codec.filename))) = 4
        /\ codec.stage = "decoded" =>
              /\ codec.parsed.ok
              /\ format_instance_name(codec.parsed.container_id,
                                      codec.parsed.container_name,
                                      codec.parsed.path_backed_formatted)
                    = codec.instance_name

\* a name with a dot and a path with a hyphen have been written and decoded
C26_Witness ==
    /\ WrittenByScheduler
    /\ codec.stage = "decoded"
    /\ codec.container_name = <<"w", ".", "x">>
    /\ codec.path_backed = PathHyphen
    /\ Len(split(splitext_root(codec.filename))) = 4
    /\ codec.parsed.ok
    /\ codec.parsed.container_name = <<"w", ".", "x">>
    /\ codec.parsed.path_backed_formatted = Formatted(PathHyphen)

-----------------------------------------------------------------------------
(* C27 *)

\* the table has an active row for the path of the container
ActiveRowFor(id, path) ==
    \E i \in 1..Len(df.rows) :
        /\ df.rows[i].container_id = id
        /\ df.rows[i].path_backed = path
        /\ df.rows[i].dt_deleted = NaT

\* C27, as stated: after a detection pass that returns, every path of every
\* container of the should-track map has an active row of its own in the
\* table.
C27_AsStated ==
    After("DETECT") /\ ~pass.raised =>
        \A id \in DOMAIN ShouldTrack :
            \A path \in Range(ShouldTrack[id]) : ActiveRowFor(id, path)

-----------------------------------------------------------------------------
(* C28 *)

\* C28, as stated: after a detection pass that returns, no two active rows
\* of the table share a container_id and a path_backed.
C28_AsStated ==
    After("DETECT") /\ ~pass.raised =>
        \A i, j \in 1..Len(df.rows) :
            /\ df.rows[i].dt_deleted = NaT
            /\ df.rows[j].dt_deleted = NaT
            /\ df.rows[i].container_id = df.rows[j].container_id
            /\ df.rows[i].path_backed = df.rows[j].path_backed
            => i = j

-----------------------------------------------------------------------------
(* C29 *)

\* C29, as stated: for backup_keep_num >= 1, every active row that has an
\* artifact on disk before a scheduling pass has one after it.
C29_AsStated ==
    After("SCHEDULE_BACKUP") /\ config.backup_keep_num >= 1 =>
        \A l \in LabelsBefore :
            /\ pre.df.rows[l].dt_deleted = NaT
            /\ ArtifactsBefore(l) # {}
            => ArtifactsAfter(l) # {}

-----------------------------------------------------------------------------
(* C30 *)

\* the creation of the backup of the row was attempted and its file was not
\* written to the end
CreationFailed(l) == l \in pass.attempted \ pass.written

\* C30, as stated: after a scheduling pass, the artifact name of a row whose
\* creation failed holds what pruning left under it: the file of the same
\* day that was there and was not pruned, with its size, or nothing.
C30_AsStated ==
    After("SCHEDULE_BACKUP") =>
        \A l \in LabelsBefore :
            CreationFailed(l) =>
                IF /\ ArtifactOfToday(l) \in DOMAIN pre.disk
                   /\ ArtifactOfToday(l) \notin pass.removed
                THEN /\ ArtifactOfToday(l) \in DOMAIN disk
                     /\ disk[ArtifactOfToday(l)] = pre.disk[ArtifactOfToday(l)]
                ELSE ArtifactOfToday(l) \notin DOMAIN disk

-----------------------------------------------------------------------------
(* C31 *)

\* the table has been persisted at the end of a run whose scheduling pass
\* was entered
Persisted == pc = "REPORT" /\ pass.phase = "SCHEDULE_BACKUP" /\ pass.ran

\* the persisted table records the backup of this run for the instance
Recorded(instance_name) ==
    \E i \in 1..Len(csv) :
        /\ InstanceName(csv[i]) = instance_name
        /\ csv[i].dt_last_backed = now
        /\ csv[i].size_last_backed = ArchiveSize(now)

\* C31, as stated: in the table persisted at the end of a run, the row of
\* every instance whose artifact was written to the end in that run carries
\* the creation time and the artifact's size, also when the scheduling pass
\* was ended by an error raised for a later instance.
C31_AsStated ==
    Persisted => \A l \in pass.written : Recorded(NameBefore(l))

-----------------------------------------------------------------------------
(* C32 *)

\* the rows of the table before the pass the artifact was written for
OwnersBefore(filename) ==
    {l \in LabelsBefore : Parsed[filename].ok
                          /\ Parsed[filename].instance_name = NameBefore(l)}

\* C32, as stated: an artifact deleted by ghost pruning was written for a
\* ghost row selected by the pass and for no row that is active in the same
\* table, and an artifact deleted by count-based pruning was written for one
\* due row and for no other row.
C32_AsStated ==
    /\ After("GHOST_PRUNE") =>
          \A f \in pass.removed :
              /\ OwnersBefore(f) \cap pass.instances_to_prune # {}
              /\ \A l \in OwnersBefore(f) : pre.df.rows[l].dt_deleted # NaT
    /\ After("SCHEDULE_BACKUP") =>
          \A f \in pass.removed :
              /\ Cardinality(OwnersBefore(f)) = 1
              /\ OwnersBefore(f) \subseteq pass.df_instances_to_backup

-----------------------------------------------------------------------------
(* C33 *)

\* C33, as stated: an artifact is deleted by ghost pruning only when every
\* row of its instance name is marked deleted and ghost_backup_keep_days
\* whole days have passed since; with ghost_backup_keep_days unbounded ghost
\* pruning deletes no artifact and removes no row; and a row that a
\* detection pass finds untracked after it was active carries the time of
\* that pass as its dt_deleted, so that the days are counted from there.
C33_AsStated ==
    /\ After("GHOST_PRUNE") =>
          /\ \A f \in pass.removed :
                /\ OwnersBefore(f) # {}
                /\ \A l \in OwnersBefore(f) : ExpiredGhostBefore(l)
          /\ config.ghost_backup_keep_days = Unbounded =>
                pass.removed = {} /\ df.rows = pre.df.rows
    /\ After("DETECT") /\ ~pass.raised =>
          \A l \in LabelsBefore :
              pre.df.rows[l].dt_deleted = NaT /\ ~Tracked(pre.df.rows[l])
              => df.rows[l].dt_deleted = now

-----------------------------------------------------------------------------
(* C34 *)

\* the time an artifact of the instance name was last written to the end
\* before this pass, if there was one
LastCreatedBefore(instance_name) ==
    {h[2] : h \in {g \in pre.history : g[1] = instance_name}}

\* C34, as stated: an artifact written to the end in a scheduling pass comes
\* at least min_backup_interval whole days after the artifact last written
\* to the end for the same instance name, in this run or any run before.
C34_AsStated ==
    After("SCHEDULE_BACKUP") =>
        \A l \in pass.written :
            \A t \in LastCreatedBefore(NameBefore(l)) :
                Days(now, t) >= config.min_backup_interval

-----------------------------------------------------------------------------
(* C35 *)

\* C35, as stated: with a finite ghost_backup_keep_days, a ghost-pruning
\* pass in which no deletion fails and which finds a row out of the
\* should-track map for at least ghost_backup_keep_days whole days removes
\* the row and leaves no artifact of its instance name, whether or not the
\* row ever had an artifact.  (A pass that does not reclaim such a row leaves
\* the row and the files of its name as they were, so the passes of the
\* later runs find what this one found.)
C35_AsStated ==
    (/\ After("GHOST_PRUNE")
     /\ config.ghost_backup_keep_days # Unbounded
     /\ pass.failed = {}) =>
        \A l \in LabelsBefore :
            ExpiredGhostBefore(l) =>
                /\ l \in Gone
                /\ ArtifactsAfter(l) = {}

====
